---- MODULE Spec2Model ----
(***************************************************************************)
(* Model of the fakepoint discovery-and-reload pipeline of                 *)
(* @test-effective/fakes: src/src/fakepoints/collect-fakepoints-vite-      *)
(* plugin.ts (the second, current definition of collectFakepointsPlugin,   *)
(* lines 150-359).                                                         *)
(*                                                                         *)
(* Strings are modelled as sequences of tokens, so that endsWith, path.join*)
(* and path.posix.join are computed on them the way the code computes them *)
(* on characters.  A file or directory NAME is a token sequence, a tree    *)
(* PATH is a sequence of names, and a path STRING is the names flattened   *)
(* with a separator token between them.                                    *)
(***************************************************************************)
EXTENDS Naturals, Sequences, FiniteSets, TLC

VARIABLES
    options,                \* the options object given to collectFakepointsPlugin
    platformSep,            \* path.sep of the platform the plugin runs on
    unreadableDirs,         \* directories whose readdir() rejects
    fs,                     \* the entries (files, symlinks) present under workspaceRoot
    pc,                     \* "created" before configureServer ran, then "serving"
    absoluteFakepointPaths, \* configureServer's tracking list (closure variable)
    watcherPaths,           \* paths handed to server.watcher.add
    listeners,              \* events subscribed with server.watcher.on, in order
    events,                 \* watcher events the host has not yet delivered
    restartsInFlight,       \* server.restart() calls not yet settled
    restartLog,             \* reason of every triggerVitestRerun call, in order
    unhandledRejections,    \* rejected restart promises nobody awaited
    discovered,             \* result of the most recent findFakepointFiles call
    warnings,               \* console.warn calls made by the most recent operation
    result,                 \* return value of the most recent hook call
    lastOp,                 \* the most recent operation and its argument
    changes,                \* number of file-system changes made so far
    fakepointsToRun,        \* the registry's list of registered functions
    invoked,                \* the registered functions the most recent run called, in order
    registryLog,            \* the registry calls made so far, in order
    createdFaketories,      \* the module-level list createFaketory pushes to
    stores,                 \* the records of each collection, in insertion order
    faketoryCalls,          \* the props the entity faketory got in the most recent operation
    observed,               \* the number of records each of these calls found in the collection
    ops                     \* number of faketory operations made so far

\* the state of the registry and of the faketories
libVars == << fakepointsToRun, invoked, registryLog, createdFaketories, stores,
              faketoryCalls, observed, ops >>

\* the state of the plugin and its host, apart from what every operation reports
pluginVars == << options, platformSep, unreadableDirs, fs, pc, absoluteFakepointPaths,
                 watcherPaths, listeners, events, restartsInFlight, restartLog,
                 unhandledRejections, discovered, changes >>

vars == << options, platformSep, unreadableDirs, fs, pc, absoluteFakepointPaths,
           watcherPaths, listeners, events, restartsInFlight, restartLog,
           unhandledRejections, discovered, warnings, result, lastOp, changes,
           fakepointsToRun, invoked, registryLog, createdFaketories, stores,
           faketoryCalls, observed, ops >>

----------------------------------------------------------------------------
(* Bounds of the model *)

\* number of file-system changes (file created / file deleted) in a behaviour
MaxChanges == 3

\* number of files a test writes or removes between direct calls of the hooks
MaxEdits == 1

\* number of calls of the registry's functions in a behaviour
MaxCalls == 4

\* number of faketory operations in a behaviour
MaxOps == 3

\* the largest count given to generateMany / createMany / seedMany on its own
MaxCount == 3

----------------------------------------------------------------------------
(* Values *)

Null == [kind |-> "null"]       \* null / undefined / option not given
Some(v) == [kind |-> "some", value |-> v]    \* an option that was given

VIRTUAL_MODULE_ID == <<"collected-fakepoints">>
RESOLVED_VIRTUAL_MODULE_ID == <<"\\0">> \o VIRTUAL_MODULE_ID

\* the suffix the code matches: the literal '.fakepoints.ts'
FAKEPOINTS_SUFFIX == <<".fakepoints", ".ts">>

\* the custom suffix of the tests and the README
TEST_DATA_SUFFIX == <<".test-data", ".ts">>

defaultIgnoreDirs == { <<"node_modules">>, <<"dist">>, <<"tmp">>, <<".git">> }

\* the workspace root, given as an absolute path (path.resolve leaves it as is)
workspaceRoot == <<"/ws">>

----------------------------------------------------------------------------
(* The file universe *)

Entry(p, k) == [path |-> p, kind |-> k]

UserFakepoints   == Entry(<< <<"src">>, <<"models">>, <<"user", ".fakepoints", ".ts">> >>, "file")
HelperFakepoints == Entry(<< <<"src">>, <<"utils">>, <<"helper", ".fakepoints", ".ts">> >>, "file")
IgnoredPkg       == Entry(<< <<"node_modules">>, <<"pkg">>, <<"ignored", ".fakepoints", ".ts">> >>, "file")
NestedTmp        == Entry(<< <<"src">>, <<"tmp">>, <<"deep", ".fakepoints", ".ts">> >>, "file")
NewFakepoints    == Entry(<< <<"new", ".fakepoints", ".ts">> >>, "file")
UserTestData     == Entry(<< <<"src">>, <<"models">>, <<"user", ".test-data", ".ts">> >>, "file")
BackupFile       == Entry(<< <<"src">>, <<"old", ".fakepoints", ".ts", ".bak">> >>, "file")
LinkFakepoints   == Entry(<< <<"src">>, <<"link", ".fakepoints", ".ts">> >>, "symlink")
SecretFakepoints == Entry(<< <<"locked">>, <<"secret", ".fakepoints", ".ts">> >>, "file")

Universe == { UserFakepoints, HelperFakepoints, IgnoredPkg, NestedTmp, NewFakepoints,
              UserTestData, BackupFile, LinkFakepoints, SecretFakepoints }

\* the order in which the host's directory listing returns names (not alphabetical)
ListingOrder ==
    << <<"src">>, <<"node_modules">>, <<"locked">>, <<"new", ".fakepoints", ".ts">>,
       <<"utils">>, <<"models">>, <<"tmp">>, <<"pkg">>,
       <<"user", ".test-data", ".ts">>, <<"user", ".fakepoints", ".ts">>,
       <<"helper", ".fakepoints", ".ts">>, <<"ignored", ".fakepoints", ".ts">>,
       <<"deep", ".fakepoints", ".ts">>, <<"old", ".fakepoints", ".ts", ".bak">>,
       <<"link", ".fakepoints", ".ts">>, <<"secret", ".fakepoints", ".ts">> >>

----------------------------------------------------------------------------
(* String helpers *)

Range(s) == { s[i] : i \in 1..Len(s) }

IsPrefix(p, s) == Len(p) <= Len(s) /\ SubSeq(s, 1, Len(p)) = p

\* String.prototype.endsWith
endsWith(s, suffix) ==
    Len(suffix) <= Len(s) /\ SubSeq(s, Len(s) - Len(suffix) + 1, Len(s)) = suffix

\* path.join(a, b) for two non-empty relative strings: platform separator between
pathJoin(a, b) == a \o <<platformSep>> \o b

\* path.resolve(workspaceRoot, file) for an absolute root and a relative file
pathResolve(root, file) == root \o <<platformSep>> \o file

RECURSIVE collapseSlashes(_)
collapseSlashes(s) ==
    IF Len(s) < 2 THEN s
    ELSE IF s[1] = "/" /\ s[2] = "/" THEN collapseSlashes(Tail(s))
    ELSE <<s[1]>> \o collapseSlashes(Tail(s))

\* path.posix.join('/', file): joins with '/', then normalises with '/' as the only
\* separator (a backslash is an ordinary character to path.posix)
posixJoinRoot(file) == collapseSlashes(<<"/">> \o <<"/">> \o file)

----------------------------------------------------------------------------
(* The directory tree as readdir(dir, { withFileTypes: true }) shows it *)

\* names of the entries of directory dir, in listing order
readdir(dir) ==
    LET beneath == { e \in fs : Len(e.path) > Len(dir) /\ IsPrefix(dir, e.path) }
        names == { e.path[Len(dir) + 1] : e \in beneath }
    IN  SelectSeq(ListingOrder, LAMBDA n : n \in names)

\* Dirent.isDirectory(): the entry has entries beneath it
isDirectory(dir, name) ==
    \E e \in fs : Len(e.path) > Len(dir) + 1 /\ IsPrefix(dir \o <<name>>, e.path)

\* Dirent.isFile(): a regular file (false for a symbolic link)
isFile(dir, name) ==
    \E e \in fs : e.path = dir \o <<name>> /\ e.kind = "file"

----------------------------------------------------------------------------
(* findFakepointFiles *)

\* the ignoreDirs set built by collectFakepointsPlugin: new Set(options.ignoreDirs || [])
ignoreDirs == IF options.ignoreDirs = Null THEN {} ELSE Range(options.ignoreDirs.value)

\* mutant: the caller's ignoreDirs are left out of the set
allIgnoreDirsDefaultsOnly == defaultIgnoreDirs

\* allIgnoreDirs = new Set([...defaultIgnoreDirs, ...ignoreDirs])
allIgnoreDirs == defaultIgnoreDirs \cup ignoreDirs

\* the test of line 347 on an entry name
matchesSuffix(name) == endsWith(name, FAKEPOINTS_SUFFIX)

RECURSIVE walk(_, _), walkEntries(_, _, _)

\* walk(dir, basePath): the paths it pushes, in push order; a readdir failure is
\* caught around the whole loop, so an unreadable directory pushes nothing
walk(dir, basePath) ==
    IF dir \in unreadableDirs THEN << >>
    ELSE walkEntries(dir, basePath, readdir(dir))

\* the for-loop of walk over the listed entries
walkEntries(dir, basePath, entries) ==
    IF entries = << >> THEN << >>
    ELSE LET name == Head(entries)
             relativePath == IF basePath # << >> THEN pathJoin(basePath, name) ELSE name
             pushed ==
                 IF isDirectory(dir, name)
                 THEN IF name \notin allIgnoreDirs
                      THEN walk(dir \o <<name>>, relativePath)
                      ELSE << >>
                 ELSE IF isFile(dir, name) /\ matchesSuffix(name)
                      THEN <<relativePath>>
                      ELSE << >>
         IN  pushed \o walkEntries(dir, basePath, Tail(entries))

\* mutant: the root is walked twice
findFakepointFilesRevisiting == walk(<< >>, << >>) \o walk(<< >>, << >>)

\* mutant: a directory that cannot be read makes the whole scan give up
findFakepointFilesAborting == IF unreadableDirs # {} THEN << >> ELSE walk(<< >>, << >>)

findFakepointFiles == walk(<< >>, << >>)

----------------------------------------------------------------------------
(* The hooks of the plugin object *)

Line(kind, text) == [kind |-> kind, text |-> text]

HeaderLine ==
    Line("comment", <<"// Auto-generated virtual module that imports all ">>
                    \o FAKEPOINTS_SUFFIX \o <<" files">>)
BlankLine == Line("blank", << >>)
ImportLine(specifier) == Line("import", specifier)
DebugLine(n) == Line("log", <<n>>)

\* mutant: a fragment is returned whatever was supplied, an empty list included
configAlwaysFragment ==
    [kind |-> "config",
     ignored |-> IF options.ignoreDirs = Null THEN << >>
                 ELSE [i \in 1..Len(options.ignoreDirs.value) |->
                          <<"**/">> \o options.ignoreDirs.value[i] \o <<"/**">>]]

\* config(): the watcher-ignore fragment, or nothing
config ==
    IF options.ignoreDirs # Null /\ Len(options.ignoreDirs.value) > 0
    THEN [kind |-> "config",
          ignored |-> [i \in 1..Len(options.ignoreDirs.value) |->
                          <<"**/">> \o options.ignoreDirs.value[i] \o <<"/**">>]]
    ELSE Null

\* mutant: every id is resolved to the virtual module
resolveIdAnything(id) == [kind |-> "id", value |-> RESOLVED_VIRTUAL_MODULE_ID]

\* resolveId(id)
resolveId(id) ==
    IF id = VIRTUAL_MODULE_ID THEN [kind |-> "id", value |-> RESOLVED_VIRTUAL_MODULE_ID]
    ELSE Null

\* mutant: the list of the first scan is kept and reused
loadFilesMemoized == IF discovered # Null THEN discovered.value ELSE findFakepointFiles

\* mutant: on a running server the tracking list is used, made relative to the root
loadFilesFromTracked ==
    IF absoluteFakepointPaths # << >>
    THEN [i \in 1..Len(absoluteFakepointPaths) |->
             SubSeq(absoluteFakepointPaths[i], Len(workspaceRoot) + 2,
                    Len(absoluteFakepointPaths[i]))]
    ELSE findFakepointFiles

\* the file list load works from: a fresh scan on every call
loadFiles == findFakepointFiles

\* the import statements of load, one per scanned file, in scan order
importsOf(fakepointFiles) ==
    [i \in 1..Len(fakepointFiles) |-> ImportLine(posixJoinRoot(fakepointFiles[i]))]

\* mutant: nothing is generated when there is nothing to import
moduleSourceOnlyWithImports(imports) ==
    IF imports = << >> THEN << >>
    ELSE <<HeaderLine>> \o imports \o <<BlankLine>>
         \o <<IF options.debug THEN DebugLine(Len(imports)) ELSE BlankLine>>

\* the template literal load returns: header, imports.join('\n'), an empty line,
\* the debug statement or an empty line
moduleSource(imports) ==
    <<HeaderLine>>
    \o (IF imports = << >> THEN <<BlankLine>> ELSE imports)
    \o <<BlankLine>>
    \o <<IF options.debug THEN DebugLine(Len(imports)) ELSE BlankLine>>

\* mutant: a root directory that cannot be read makes load fail
loadRejectingUnreadableRoot(id) ==
    IF id = RESOLVED_VIRTUAL_MODULE_ID
    THEN IF << >> \in unreadableDirs
         THEN [kind |-> "error", files |-> << >>, lines |-> << >>]
         ELSE [kind |-> "source", files |-> loadFiles,
               lines |-> moduleSource(importsOf(loadFiles))]
    ELSE Null

\* load(id): the source for the resolved virtual id, null for any other id; the
\* record keeps the scanned list the source was made from
load(id) ==
    IF id = RESOLVED_VIRTUAL_MODULE_ID
    THEN LET fakepointFiles == loadFiles
         IN  [kind |-> "source", files |-> fakepointFiles,
              lines |-> moduleSource(importsOf(fakepointFiles))]
    ELSE Null

scannedBy(source) == source.files

----------------------------------------------------------------------------
(* The host: its watcher and its restart *)

\* the directories the host's watcher ignores: its built-in **/.git/** and
\* **/node_modules/**, and the globs the config hook contributed
watcherIgnoresDir(name) ==
    \/ name \in { <<".git">>, <<"node_modules">> }
    \/ /\ config # Null
       /\ \E i \in 1..Len(config.ignored) : config.ignored[i] = <<"**/">> \o name \o <<"/**">>

\* the host's watcher surfaces no event for an entry beneath an ignored directory
watcherSurfaces(e) == \A i \in 1..(Len(e.path) - 1) : ~watcherIgnoresDir(e.path[i])

\* the path string of a tree path relative to the root, as path.join builds it
RECURSIVE relativeString(_)
relativeString(p) ==
    IF Len(p) = 1 THEN p[1] ELSE pathJoin(relativeString(SubSeq(p, 1, Len(p) - 1)), p[Len(p)])

\* the absolute path the watcher reports for an entry
absoluteString(e) == pathResolve(workspaceRoot, relativeString(e.path))

Event(type, file) == [type |-> type, file |-> file]

----------------------------------------------------------------------------
(* configureServer and the handlers it attaches *)

\* the state the handlers of one configureServer call work on
Closure(tracked, watched, log, inflight) ==
    [tracked |-> tracked, watched |-> watched, log |-> log, inflight |-> inflight]

\* mutant: no restart is requested while one is in flight
triggerVitestRerunCoalescing(c, reason) ==
    IF c.inflight > 0 THEN c ELSE [c EXCEPT !.log = Append(@, reason), !.inflight = @ + 1]

\* triggerVitestRerun(reason): logs the reason and calls server.restart()
triggerVitestRerun(c, reason) ==
    [c EXCEPT !.log = Append(@, reason), !.inflight = @ + 1]

\* absoluteFakepointPaths.indexOf(file), 0 for -1
indexOf(s, x) ==
    IF \E i \in 1..Len(s) : s[i] = x
    THEN CHOOSE i \in 1..Len(s) : s[i] = x /\ \A j \in 1..(i - 1) : s[j] # x
    ELSE 0

\* mutant: s.splice(i), which removes everything from i on
spliceToEnd(s, i) == SubSeq(s, 1, i - 1)

\* s.splice(i, 1)
splice(s, i) == SubSeq(s, 1, i - 1) \o SubSeq(s, i + 1, Len(s))

\* mutant: the new file is tracked and watched, but no rerun is triggered
onAddWithoutRerun(c, file) ==
    IF endsWith(file, FAKEPOINTS_SUFFIX)
    THEN [c EXCEPT !.tracked = Append(@, file), !.watched = @ \cup {file}]
    ELSE c

\* the 'add' listener
onAdd(c, file) ==
    IF endsWith(file, FAKEPOINTS_SUFFIX)
    THEN triggerVitestRerun(
             [c EXCEPT !.tracked = Append(@, file), !.watched = @ \cup {file}],
             "file added")
    ELSE c

\* mutant: the deleted file stays in the tracking list
onUnlinkKeeping(c, file) ==
    IF endsWith(file, FAKEPOINTS_SUFFIX) THEN triggerVitestRerun(c, "file deleted") ELSE c

\* the 'unlink' listener
onUnlink(c, file) ==
    IF endsWith(file, FAKEPOINTS_SUFFIX)
    THEN LET index == indexOf(c.tracked, file)
         IN  triggerVitestRerun(
                 [c EXCEPT !.tracked = IF index > 0 THEN splice(@, index) ELSE @],
                 "file deleted")
    ELSE c

\* mutant: the 'all' listener also triggers a rerun for a fakepoints file
onAllRestarting(c, type, file) ==
    IF endsWith(file, FAKEPOINTS_SUFFIX) THEN triggerVitestRerun(c, "event") ELSE c

\* the 'all' listener of debug mode: console.log only
onAll(c, type, file) == c

\* one listener called with one event
callListener(c, listener, ev) ==
    IF listener = "all" THEN onAll(c, ev.type, ev.file)
    ELSE IF listener = "add" /\ ev.type = "add" THEN onAdd(c, ev.file)
    ELSE IF listener = "unlink" /\ ev.type = "unlink" THEN onUnlink(c, ev.file)
    ELSE c

\* the watcher emitting one event: every listener in subscription order
RECURSIVE emit(_, _, _)
emit(c, ls, ev) ==
    IF ls = << >> THEN c ELSE emit(callListener(c, Head(ls), ev), Tail(ls), ev)

\* the listeners configureServer subscribes, in order
subscriptions ==
    (IF options.debug THEN <<"all">> ELSE << >>) \o <<"add", "unlink">>

\* mutant: the watch option is not consulted
watchAlways == TRUE

\* whether configureServer sets up watching at all
watchEnabled == options.watch

\* mutant: the tracking list keeps the scan's relative paths (no path.resolve)
configureServerTrackingRelative ==
    IF ~watchEnabled
    THEN [tracked |-> << >>, watched |-> {}, listeners |-> << >>, scanned |-> Null]
    ELSE LET fakepointFiles == findFakepointFiles
         IN  [tracked |-> fakepointFiles,
              watched |-> Range(fakepointFiles) \cup {workspaceRoot},
              listeners |-> subscriptions,
              scanned |-> Some(fakepointFiles)]

\* mutant: the workspace root is not added to the watcher
configureServerWithoutRoot ==
    IF ~watchEnabled
    THEN [tracked |-> << >>, watched |-> {}, listeners |-> << >>, scanned |-> Null]
    ELSE LET fakepointFiles == findFakepointFiles
             absolutePaths == [i \in 1..Len(fakepointFiles) |->
                                  pathResolve(workspaceRoot, fakepointFiles[i])]
         IN  [tracked |-> absolutePaths,
              watched |-> Range(absolutePaths),
              listeners |-> subscriptions,
              scanned |-> Some(fakepointFiles)]

\* configureServer on a fresh server: what it leaves in
\* [tracked, watched, listeners, discovered]
configureServer ==
    IF ~watchEnabled
    THEN [tracked |-> << >>, watched |-> {}, listeners |-> << >>, scanned |-> Null]
    ELSE LET fakepointFiles == findFakepointFiles
             absolutePaths == [i \in 1..Len(fakepointFiles) |->
                                  pathResolve(workspaceRoot, fakepointFiles[i])]
         IN  [tracked |-> absolutePaths,
              watched |-> Range(absolutePaths) \cup {workspaceRoot},
              listeners |-> subscriptions,
              scanned |-> Some(fakepointFiles)]

----------------------------------------------------------------------------
(* Inputs *)

\* the options object after the defaults of lines 156-157 (debug ?? false, watch ?? true)
Options(watch, debug, dirs, pattern) ==
    [watch |-> watch, debug |-> debug, ignoreDirs |-> dirs, filePattern |-> pattern,
     misshapen |-> Null]

\* an options object with watch: 'no', a string where a boolean is expected: the code
\* only ever tests !watch, and a non-empty string is truthy
MisshapenWatch ==
    [watch |-> TRUE, debug |-> FALSE, ignoreDirs |-> Null, filePattern |-> Null,
     misshapen |-> Some("watch")]

CustomIgnoreDirs == Some(<< <<"utils">>, <<"tests">> >>)

\* the option objects of the runs: the defaults, each option on its own, and mixes
OptionChoices ==
    { Options(TRUE, FALSE, Null, Null),
      Options(FALSE, FALSE, Null, Null),
      Options(TRUE, TRUE, Null, Null),
      Options(TRUE, FALSE, CustomIgnoreDirs, Null),
      Options(TRUE, FALSE, Some(<< >>), Null),
      Options(TRUE, FALSE, Null, Some(TEST_DATA_SUFFIX)),
      Options(FALSE, TRUE, CustomIgnoreDirs, Null),
      Options(TRUE, TRUE, CustomIgnoreDirs, Some(TEST_DATA_SUFFIX)) }

\* the trees a run starts from: the scenario tree of the unit tests, and an empty one
InitialTrees ==
    { { UserFakepoints, HelperFakepoints, IgnoredPkg, UserTestData, SecretFakepoints },
      {} }

\* the entries that are created or deleted while the server runs
Changeable == { NewFakepoints, NestedTmp, UserFakepoints, UserTestData, LinkFakepoints }

\* the entries whose content is edited while the server runs
Editable == { UserFakepoints, UserTestData }

\* the platform (path.sep: '/' on POSIX, '\' on Windows) and the unreadable
\* directories of a run: none, a subdirectory, the root
EnvChoices ==
    { <<"/", {}>>, <<"\\", {}>>, <<"/", { << <<"locked">> >> }>>, <<"/", { << >> }>> }

\* the module ids the host asks about
Ids == { VIRTUAL_MODULE_ID, RESOLVED_VIRTUAL_MODULE_ID, <<"other">> }

Op(name, arg) == [op |-> name, arg |-> arg]

----------------------------------------------------------------------------
(* The state machine *)

\* what every run starts with: nothing set up, nothing called
Fresh ==
    /\ pc = "created"
    /\ absoluteFakepointPaths = << >>
    /\ watcherPaths = {}
    /\ listeners = << >>
    /\ events = << >>
    /\ restartsInFlight = 0
    /\ restartLog = << >>
    /\ unhandledRejections = 0
    /\ discovered = Null
    /\ warnings = 0
    /\ result = Null
    /\ lastOp = Op("new", Null)
    /\ changes = 0
    /\ fakepointsToRun = << >>
    /\ invoked = << >>
    /\ registryLog = << >>
    /\ createdFaketories = << >>
    /\ stores = [c \in {"user", "post"} |-> << >>]
    /\ faketoryCalls = << >>
    /\ observed = << >>
    /\ ops = 0

\* a server run on POSIX with a readable scenario tree, under any options
Init ==
    /\ options \in OptionChoices
    /\ platformSep = "/"
    /\ unreadableDirs = {}
    /\ fs = { UserFakepoints, HelperFakepoints, IgnoredPkg, UserTestData }
    /\ Fresh

\* the hooks called directly on a plugin object, as the unit tests do, on any
\* platform and tree
HookInit ==
    /\ options \in { o \in OptionChoices : o.watch } \cup { MisshapenWatch }
    /\ \E env \in EnvChoices : platformSep = env[1] /\ unreadableDirs = env[2]
    /\ fs \in InitialTrees
    /\ Fresh

\* the host calls the config hook while it resolves its configuration
Config ==
    /\ pc = "created"
    /\ result' = config
    /\ warnings' = 0
    /\ lastOp' = Op("config", Null)
    /\ UNCHANGED libVars
    /\ UNCHANGED << options, platformSep, unreadableDirs, fs, pc, absoluteFakepointPaths,
                    watcherPaths, listeners, events, restartsInFlight, restartLog,
                    unhandledRejections, discovered, changes >>

\* the host calls resolveId(id)
ResolveId(id) ==
    /\ result' = resolveId(id)
    /\ warnings' = 0
    /\ lastOp' = Op("resolveId", id)
    /\ UNCHANGED libVars
    /\ UNCHANGED << options, platformSep, unreadableDirs, fs, pc, absoluteFakepointPaths,
                    watcherPaths, listeners, events, restartsInFlight, restartLog,
                    unhandledRejections, discovered, changes >>

\* the host calls load(id); for the virtual module this scans and warns when empty
Load(id) ==
    /\ result' = load(id)
    /\ discovered' = IF result' = Null THEN discovered ELSE Some(scannedBy(result'))
    /\ warnings' = IF result' # Null /\ scannedBy(result') = << >> THEN 1 ELSE 0
    /\ lastOp' = Op("load", id)
    /\ UNCHANGED libVars
    /\ UNCHANGED << options, platformSep, unreadableDirs, fs, pc, absoluteFakepointPaths,
                    watcherPaths, listeners, events, restartsInFlight, restartLog,
                    unhandledRejections, changes >>

\* the host calls configureServer(server) once its server exists
ConfigureServer ==
    /\ pc = "created"
    /\ pc' = "serving"
    /\ LET server == configureServer
       IN  /\ absoluteFakepointPaths' = server.tracked
           /\ watcherPaths' = server.watched
           /\ listeners' = server.listeners
           /\ discovered' = IF server.scanned = Null THEN discovered ELSE server.scanned
    /\ result' = Null
    /\ warnings' = 0
    /\ lastOp' = Op("configureServer", Null)
    /\ UNCHANGED libVars
    /\ UNCHANGED << options, platformSep, unreadableDirs, fs, events, restartsInFlight,
                    restartLog, unhandledRejections, changes >>

\* a test writes a file into the workspace while no server runs
WriteFile(e) ==
    /\ pc = "created"
    /\ changes < MaxEdits
    /\ e \notin fs
    /\ fs' = fs \cup {e}
    /\ changes' = changes + 1
    /\ result' = Null
    /\ warnings' = 0
    /\ lastOp' = Op("write", e)
    /\ UNCHANGED libVars
    /\ UNCHANGED << options, platformSep, unreadableDirs, pc, absoluteFakepointPaths,
                    watcherPaths, listeners, events, restartsInFlight, restartLog,
                    unhandledRejections, discovered >>

\* a test removes a file from the workspace while no server runs
RemoveFile(e) ==
    /\ pc = "created"
    /\ changes < MaxEdits
    /\ e \in fs
    /\ fs' = fs \ {e}
    /\ changes' = changes + 1
    /\ result' = Null
    /\ warnings' = 0
    /\ lastOp' = Op("remove", e)
    /\ UNCHANGED libVars
    /\ UNCHANGED << options, platformSep, unreadableDirs, pc, absoluteFakepointPaths,
                    watcherPaths, listeners, events, restartsInFlight, restartLog,
                    unhandledRejections, discovered >>

\* the events the watcher queues for a change of entry e
queued(type, e) ==
    IF watcherSurfaces(e) THEN Append(events, Event(type, absoluteString(e))) ELSE events

\* a file (or link) appears in the workspace; the watcher reports 'add'
CreateFile(e) ==
    /\ pc = "serving"
    /\ changes < MaxChanges
    /\ e \notin fs
    /\ fs' = fs \cup {e}
    /\ events' = queued("add", e)
    /\ changes' = changes + 1
    /\ result' = Null
    /\ warnings' = 0
    /\ lastOp' = Op("create", e)
    /\ UNCHANGED libVars
    /\ UNCHANGED << options, platformSep, unreadableDirs, pc, absoluteFakepointPaths,
                    watcherPaths, listeners, restartsInFlight, restartLog,
                    unhandledRejections, discovered >>

\* a file (or link) is deleted; the watcher reports 'unlink'
DeleteFile(e) ==
    /\ pc = "serving"
    /\ changes < MaxChanges
    /\ e \in fs
    /\ fs' = fs \ {e}
    /\ events' = queued("unlink", e)
    /\ changes' = changes + 1
    /\ result' = Null
    /\ warnings' = 0
    /\ lastOp' = Op("delete", e)
    /\ UNCHANGED libVars
    /\ UNCHANGED << options, platformSep, unreadableDirs, pc, absoluteFakepointPaths,
                    watcherPaths, listeners, restartsInFlight, restartLog,
                    unhandledRejections, discovered >>

\* the content of a file is edited; the watcher reports 'change'
ChangeFile(e) ==
    /\ pc = "serving"
    /\ changes < MaxChanges
    /\ e \in fs
    /\ events' = queued("change", e)
    /\ changes' = changes + 1
    /\ result' = Null
    /\ warnings' = 0
    /\ lastOp' = Op("change", e)
    /\ UNCHANGED libVars
    /\ UNCHANGED << options, platformSep, unreadableDirs, fs, pc, absoluteFakepointPaths,
                    watcherPaths, listeners, restartsInFlight, restartLog,
                    unhandledRejections, discovered >>

\* the watcher delivers its oldest event to the listeners, one event at a time
DeliverEvent ==
    /\ events # << >>
    /\ LET c == emit(Closure(absoluteFakepointPaths, watcherPaths, restartLog,
                             restartsInFlight),
                     listeners, Head(events))
       IN  /\ absoluteFakepointPaths' = c.tracked
           /\ watcherPaths' = c.watched
           /\ restartLog' = c.log
           /\ restartsInFlight' = c.inflight
    /\ events' = Tail(events)
    /\ result' = Null
    /\ warnings' = 0
    /\ lastOp' = Op("deliver", Head(events))
    /\ UNCHANGED libVars
    /\ UNCHANGED << options, platformSep, unreadableDirs, fs, pc, listeners,
                    unhandledRejections, discovered, changes >>

\* a server.restart() resolves: the host has built a new server with a new watcher
\* and has called configureServer on it
RestartResolves ==
    /\ restartsInFlight > 0
    /\ restartsInFlight' = restartsInFlight - 1
    /\ LET server == configureServer
       IN  /\ absoluteFakepointPaths' = server.tracked
           /\ watcherPaths' = server.watched
           /\ listeners' = server.listeners
           /\ discovered' = IF server.scanned = Null THEN discovered ELSE server.scanned
    /\ result' = Null
    /\ warnings' = 0
    /\ lastOp' = Op("restarted", Null)
    /\ UNCHANGED libVars
    /\ UNCHANGED << options, platformSep, unreadableDirs, fs, pc, events, restartLog,
                    unhandledRejections, changes >>

\* a server.restart() rejects: the promise of triggerVitestRerun rejects, and no
\* handler awaits or catches it
RestartRejects ==
    /\ restartsInFlight > 0
    /\ restartsInFlight' = restartsInFlight - 1
    /\ unhandledRejections' = unhandledRejections + 1
    /\ result' = Null
    /\ warnings' = 0
    /\ lastOp' = Op("restartFailed", Null)
    /\ UNCHANGED libVars
    /\ UNCHANGED << options, platformSep, unreadableDirs, fs, pc, absoluteFakepointPaths,
                    watcherPaths, listeners, events, restartLog, discovered, changes >>

\* the plugin inside a running host
Next ==
    \/ Config
    \/ ResolveId(VIRTUAL_MODULE_ID)
    \/ Load(RESOLVED_VIRTUAL_MODULE_ID)
    \/ ConfigureServer
    \/ \E e \in Changeable : CreateFile(e)
    \/ \E e \in Changeable : DeleteFile(e)
    \/ \E e \in Editable : ChangeFile(e)
    \/ DeliverEvent
    \/ RestartResolves
    \/ RestartRejects

Spec == Init /\ [][Next]_vars

\* the hooks called directly
HookNext ==
    \/ Config
    \/ \E id \in Ids : ResolveId(id)
    \/ \E id \in Ids : Load(id)
    \/ \E e \in Universe : WriteFile(e)
    \/ \E e \in Universe : RemoveFile(e)
    \/ ConfigureServer

HookSpec == HookInit /\ [][HookNext]_vars

----------------------------------------------------------------------------
(* The fakepoints registry: registerFakepoints, runAllFakepoints, clearAllFakepoints *)

\* JavaScript values a registered function returns
Undefined == [kind |-> "undefined"]
Str(v) == [kind |-> "string", value |-> v]
Arr(items) == [kind |-> "array", items |-> items]

\* a function given to registerFakepoints: it returns a value, or throws
Fn(name, throws, returns) == [name |-> name, throws |-> throws, returns |-> returns]

FnVoid   == Fn("void", FALSE, Undefined)
FnFirst  == Fn("first", FALSE, Str("first"))
FnArray  == Fn("array", FALSE, Arr(<<Str("a"), Str("b")>>))
FnNull   == Fn("null", FALSE, Null)
FnThrows == Fn("throws", TRUE, Undefined)

\* the functions the fakepoints files of a run register
RegistryFns == { FnVoid, FnFirst, FnArray, FnNull, FnThrows }

\* registerFakepoints(fakepointsFn): fakepointsToRun.push(fakepointsFn)
registerFakepoints(list, fakepointsFn) == Append(list, fakepointsFn)

\* what a completed or aborted run leaves: the functions called and the results
Run(kind, called, results) == [kind |-> kind, invoked |-> called, results |-> results]

\* the for-of loop of runAllFakepoints over the rest of the list
RECURSIVE runLoop(_, _, _)
runLoop(rest, called, results) ==
    IF rest = << >> THEN Run("returned", called, results)
    ELSE LET fakepointsFn == Head(rest)
         IN  IF fakepointsFn.throws
             THEN Run("threw", Append(called, fakepointsFn), << >>)
             ELSE LET r == fakepointsFn.returns
                  IN  runLoop(Tail(rest), Append(called, fakepointsFn),
                              IF r = Undefined THEN results ELSE Append(results, r))

\* the same loop with an array result spread into the results (mutant)
RECURSIVE runLoopFlattening(_, _, _)
runLoopFlattening(rest, called, results) ==
    IF rest = << >> THEN Run("returned", called, results)
    ELSE LET fakepointsFn == Head(rest)
         IN  IF fakepointsFn.throws
             THEN Run("threw", Append(called, fakepointsFn), << >>)
             ELSE LET r == fakepointsFn.returns
                  IN  runLoopFlattening(Tail(rest), Append(called, fakepointsFn),
                                        IF r = Undefined THEN results
                                        ELSE IF r.kind = "array" THEN results \o r.items
                                        ELSE Append(results, r))

\* mutant: a result that is an array is flattened into the results
runAllFakepointsFlattening(list) == runLoopFlattening(list, << >>, << >>)

\* runAllFakepoints(): calls every function of the list and collects what is not undefined
runAllFakepoints(list) == runLoop(list, << >>, << >>)

\* mutant: the list is left as it is
clearAllFakepointsKeeping(list) == list

\* clearAllFakepoints(): fakepointsToRun.length = 0
clearAllFakepoints(list) == << >>

\* a fakepoints file registers a function
RegisterFakepoints(fakepointsFn) ==
    /\ Len(registryLog) < MaxCalls
    /\ fakepointsToRun' = registerFakepoints(fakepointsToRun, fakepointsFn)
    /\ registryLog' = Append(registryLog, Op("register", fakepointsFn))
    /\ result' = Null
    /\ warnings' = 0
    /\ lastOp' = Op("registerFakepoints", fakepointsFn)
    /\ UNCHANGED << invoked, createdFaketories, stores, faketoryCalls, observed, ops >>
    /\ UNCHANGED pluginVars

\* mutant: a run takes the functions out of the list
RunAllFakepointsConsuming ==
    /\ Len(registryLog) < MaxCalls
    /\ LET run == runAllFakepoints(fakepointsToRun)
       IN  /\ invoked' = run.invoked
           /\ result' = IF run.kind = "returned"
                        THEN [kind |-> "results", values |-> run.results]
                        ELSE [kind |-> "threw"]
    /\ fakepointsToRun' = << >>
    /\ registryLog' = Append(registryLog, Op("run", Null))
    /\ warnings' = 0
    /\ lastOp' = Op("runAllFakepoints", Null)
    /\ UNCHANGED << createdFaketories, stores, faketoryCalls, observed, ops >>
    /\ UNCHANGED pluginVars

\* the test setup runs the registered functions
RunAllFakepoints ==
    /\ Len(registryLog) < MaxCalls
    /\ LET run == runAllFakepoints(fakepointsToRun)
       IN  /\ invoked' = run.invoked
           /\ result' = IF run.kind = "returned"
                        THEN [kind |-> "results", values |-> run.results]
                        ELSE [kind |-> "threw"]
    /\ registryLog' = Append(registryLog, Op("run", Null))
    /\ warnings' = 0
    /\ lastOp' = Op("runAllFakepoints", Null)
    /\ UNCHANGED << fakepointsToRun, createdFaketories, stores, faketoryCalls, observed, ops >>
    /\ UNCHANGED pluginVars

\* a test resets the registry
ClearAllFakepoints ==
    /\ Len(registryLog) < MaxCalls
    /\ fakepointsToRun' = clearAllFakepoints(fakepointsToRun)
    /\ registryLog' = Append(registryLog, Op("clear", Null))
    /\ result' = Null
    /\ warnings' = 0
    /\ lastOp' = Op("clearAllFakepoints", Null)
    /\ UNCHANGED << invoked, createdFaketories, stores, faketoryCalls, observed, ops >>
    /\ UNCHANGED pluginVars

\* a process that only uses the registry: no plugin, an empty workspace
LibInit ==
    /\ options = Options(TRUE, FALSE, Null, Null)
    /\ platformSep = "/"
    /\ unreadableDirs = {}
    /\ fs = {}
    /\ Fresh

RegistryNext ==
    \/ \E fakepointsFn \in RegistryFns : RegisterFakepoints(fakepointsFn)
    \/ RunAllFakepoints
    \/ ClearAllFakepoints

RegistrySpec == LibInit /\ [][RegistryNext]_vars

----------------------------------------------------------------------------
(* Faketories: createFaketory and the operations of the object it returns *)

Num(n) == [kind |-> "number", value |-> n]

\* the collections of the tests, named by their entity
Collections == { "user", "post" }

\* the schema of each collection: the type of every key
schema(c) ==
    IF c = "user" THEN [id |-> "number", email |-> "string", name |-> "string"]
    ELSE [id |-> "number", title |-> "string"]

\* the props object the entity faketory is called with
Props(seedingMode, partial, index) ==
    [seedingMode |-> seedingMode, partial |-> partial, index |-> index]

\* the entity faketories of the tests: the defaults they return for the props
entityFaketory(c, props) ==
    IF c = "user"
    THEN [id |-> Num(props.index + 1), email |-> Str("faker.email"), name |-> Str("faker.name")]
    ELSE [id |-> Num(1), title |-> Str("Test Post")]

\* mutant: the defaults win over the partial
spreadDefaultsWin(defaults, partial) ==
    [k \in (DOMAIN defaults) \cup (DOMAIN partial) |->
        IF k \in DOMAIN defaults THEN defaults[k] ELSE partial[k]]

\* { ...result, ...partial }: the own keys of both, partial's values winning
spread(defaults, partial) ==
    [k \in (DOMAIN defaults) \cup (DOMAIN partial) |->
        IF k \in DOMAIN partial THEN partial[k] ELSE defaults[k]]

\* wrappedEntityFaketory(props): the defaults, with the partial merged over them if given
wrappedEntityFaketory(c, props) ==
    LET defaults == entityFaketory(c, props)
    IN  IF props.partial # Undefined THEN spread(defaults, props.partial) ELSE defaults

\* partials[index] of a JavaScript array (0-based): undefined beyond its end
at(partials, index) ==
    IF index < Len(partials.items) THEN partials.items[index + 1] ELSE Undefined

\* what an operation leaves: its settled promise, the props of its entity faketory
\* calls, the number of records each call found, and the records of the collection
Outcome(kind, value, calls, seen, store) ==
    [kind |-> kind, value |-> value, calls |-> calls, seen |-> seen, store |-> store]

\* an entity faketory whose promise rejects: the one of the posts fails for a third entity
entityFaketoryRejects(c, props) == c = "post" /\ props.index = 2

\* what calls made one after the other without a create in between find in the collection
unchangedFor(calls, store) == [i \in 1..Len(calls) |-> Len(store)]

\* mutant: the entity faketory is told that it is seeding
generateOneSeeding(c, partial) ==
    LET props == Props(TRUE, partial, 0)
    IN  Outcome("entity", wrappedEntityFaketory(c, props), <<props>>, <<Len(stores[c])>>,
                stores[c])

\* generateOne(partial)
generateOne(c, partial) ==
    LET props == Props(FALSE, partial, 0)
    IN  IF entityFaketoryRejects(c, props)
        THEN Outcome("rejected", Undefined, <<props>>, <<Len(stores[c])>>, stores[c])
        ELSE Outcome("entity", wrappedEntityFaketory(c, props), <<props>>,
                     <<Len(stores[c])>>, stores[c])

\* the props of the calls generateMany makes, in index order
generateManyProps(input, partials) ==
    IF input.kind = "number" /\ partials # Undefined
    THEN [i \in 1..input.value |-> Props(FALSE, at(partials, i - 1), i - 1)]
    ELSE IF input.kind = "number"
    THEN [i \in 1..input.value |-> Props(FALSE, Undefined, i - 1)]
    ELSE [i \in 1..Len(input.items) |-> Props(FALSE, input.items[i], i - 1)]

\* mutant: the generated entities are also put into the collection
generateManyStoring(c, input, partials) ==
    LET calls == generateManyProps(input, partials)
        entities == [i \in 1..Len(calls) |-> wrappedEntityFaketory(c, calls[i])]
    IN  Outcome("entities", entities, calls, unchangedFor(calls, stores[c]),
                stores[c] \o entities)

\* mutant: with a count and partials, one entity per partial
generateManyPerPartial(c, input, partials) ==
    LET calls == IF partials # Undefined
                 THEN [i \in 1..Len(partials.items) |->
                          Props(FALSE, partials.items[i], i - 1)]
                 ELSE generateManyProps(input, partials)
    IN  Outcome("entities", [i \in 1..Len(calls) |-> wrappedEntityFaketory(c, calls[i])],
                calls, unchangedFor(calls, stores[c]), stores[c])

\* generateMany(input, partials): Promise.all over the calls, which are all made before
\* any of them settles
generateMany(c, input, partials) ==
    LET calls == generateManyProps(input, partials)
    IN  IF \E i \in 1..Len(calls) : entityFaketoryRejects(c, calls[i])
        THEN Outcome("rejected", Undefined, calls, unchangedFor(calls, stores[c]), stores[c])
        ELSE Outcome("entities",
                     [i \in 1..Len(calls) |-> wrappedEntityFaketory(c, calls[i])],
                     calls, unchangedFor(calls, stores[c]), stores[c])

\* the collection's schema validation of a record given to create
valid(c, entity) ==
    /\ DOMAIN entity = DOMAIN schema(c)
    /\ \A k \in DOMAIN entity : entity[k].kind = schema(c)[k]

\* mutant: the entity is validated and returned, and not kept
seedOneWithoutStoring(c, partial) ==
    LET props == Props(TRUE, partial, 0)
        entity == wrappedEntityFaketory(c, props)
    IN  IF valid(c, entity)
        THEN Outcome("entity", entity, <<props>>, <<Len(stores[c])>>, stores[c])
        ELSE Outcome("rejected", Undefined, <<props>>, <<Len(stores[c])>>, stores[c])

\* seedOne(partial): fakeDbCollection.create of the wrapped entity
seedOne(c, partial) ==
    LET props == Props(TRUE, partial, 0)
        entity == wrappedEntityFaketory(c, props)
    IN  IF ~entityFaketoryRejects(c, props) /\ valid(c, entity)
        THEN Outcome("entity", entity, <<props>>, <<Len(stores[c])>>,
                     Append(stores[c], entity))
        ELSE Outcome("rejected", Undefined, <<props>>, <<Len(stores[c])>>, stores[c])

\* mutant: the entity faketory is called for every index before anything is created
seedLoopConcurrent(c, count, partials, index, entities, calls, seen, store) ==
    LET all == [i \in 1..count |-> Props(TRUE, at(partials, i - 1), i - 1)]
        made == [i \in 1..count |-> wrappedEntityFaketory(c, all[i])]
    IN  Outcome("entities", made, all, unchangedFor(all, store), store \o made)

\* mutant: a failure takes the entities created so far out of the collection again
RECURSIVE seedLoopRollingBack(_, _, _, _, _, _, _, _)
seedLoopRollingBack(c, count, partials, index, entities, calls, seen, store) ==
    IF index >= count THEN Outcome("entities", entities, calls, seen, store)
    ELSE LET props == Props(TRUE, at(partials, index), index)
             entity == wrappedEntityFaketory(c, props)
         IN  IF ~entityFaketoryRejects(c, props) /\ valid(c, entity)
             THEN seedLoopRollingBack(c, count, partials, index + 1,
                                      Append(entities, entity), Append(calls, props),
                                      Append(seen, Len(store)), Append(store, entity))
             ELSE Outcome("rejected", Undefined, Append(calls, props),
                          Append(seen, Len(store)), stores[c])

\* the for-loop of seedMany from index on: the entity faketory is awaited, then create
\* is awaited, then the next index follows; a rejection of either ends the loop
RECURSIVE seedLoop(_, _, _, _, _, _, _, _)
seedLoop(c, count, partials, index, entities, calls, seen, store) ==
    IF index >= count THEN Outcome("entities", entities, calls, seen, store)
    ELSE LET props == Props(TRUE, at(partials, index), index)
             entity == wrappedEntityFaketory(c, props)
         IN  IF ~entityFaketoryRejects(c, props) /\ valid(c, entity)
             THEN seedLoop(c, count, partials, index + 1, Append(entities, entity),
                           Append(calls, props), Append(seen, Len(store)),
                           Append(store, entity))
             ELSE Outcome("rejected", Undefined, Append(calls, props),
                          Append(seen, Len(store)), store)

\* seedMany(input, partialsArg)
seedMany(c, input, partialsArg) ==
    IF input.kind = "number" /\ partialsArg # Undefined
    THEN seedLoop(c, input.value, partialsArg, 0, << >>, << >>, << >>, stores[c])
    ELSE LET count == IF input.kind = "number" THEN input.value ELSE Len(input.items)
             partials == IF input.kind = "number" THEN Arr(<< >>) ELSE input
         IN  seedLoop(c, count, partials, 0, << >>, << >>, << >>, stores[c])

\* createOne(partial): the deprecation warning, then generateOne
createOne(c, partial) == generateOne(c, partial)

\* mutant: the partials given with a count are dropped
createManyWithoutPartials(c, input, partials) == generateMany(c, input, Undefined)

\* createMany(input, partials): the deprecation warning, then generateMany
createMany(c, input, partials) ==
    IF partials # Undefined THEN generateMany(c, input, partials)
    ELSE generateMany(c, input, Undefined)

\* mutant: the collection is left as it is
resetKeeping(c) == stores[c]

\* reset(): fakeDbCollection.clear()
reset(c) == << >>

\* the partial objects of the tests; the last gives a key the value undefined
PartialFirst  == [email |-> Str("first@example.com")]
PartialSecond == [email |-> Str("second@example.com"), name |-> Str("Second")]
PartialThird  == [id |-> Num(100), email |-> Str("third@example.com")]
PartialNoName == [name |-> Undefined]
PartialTitle  == [title |-> Str("Custom Post")]

\* the argument of the single-entity operations: no partial, or one
OneArgs(c) ==
    IF c = "user" THEN { Undefined, PartialSecond, PartialNoName }
    ELSE { Undefined, PartialTitle }

Many(input, partials) == [input |-> input, partials |-> partials]

\* the arguments of the many-entity operations: a count, a list of partials, or a
\* count with a list that is shorter than, as long as or longer than the count
ManyArgs(c) ==
    IF c = "user"
    THEN { Many(Num(n), Undefined) : n \in 0..MaxCount }
         \cup { Many(Arr(<< >>), Undefined),
                Many(Arr(<<PartialFirst, PartialSecond, PartialThird>>), Undefined),
                Many(Arr(<<PartialFirst, PartialNoName>>), Undefined),
                Many(Num(3), Arr(<<PartialFirst>>)),
                Many(Num(1), Arr(<<PartialSecond, PartialFirst>>)),
                Many(Num(2), Arr(<< >>)),
                Many(Num(2), Arr(<<PartialThird, PartialNoName>>)) }
    ELSE { Many(Num(2), Undefined), Many(Num(2), Arr(<<PartialTitle>>)),
           Many(Num(3), Undefined) }

\* what an operation on faketory c reports and leaves behind
Settle(c, name, arg, outcome, warned) ==
    /\ result' = [kind |-> outcome.kind, value |-> outcome.value]
    /\ faketoryCalls' = outcome.calls
    /\ observed' = outcome.seen
    /\ stores' = [stores EXCEPT ![c] = outcome.store]
    /\ warnings' = warned
    /\ lastOp' = Op(name, [faketory |-> c, arg |-> arg])
    /\ ops' = ops + 1
    /\ UNCHANGED << fakepointsToRun, invoked, registryLog, createdFaketories >>
    /\ UNCHANGED pluginVars

\* a module of the tests creates the faketory of a collection
CreateFaketory(c) ==
    /\ ops = 0
    /\ \A i \in 1..Len(createdFaketories) : createdFaketories[i] # c
    /\ createdFaketories' = Append(createdFaketories, c)
    /\ result' = Null
    /\ warnings' = 0
    /\ lastOp' = Op("createFaketory", [faketory |-> c, arg |-> Undefined])
    /\ UNCHANGED << fakepointsToRun, invoked, registryLog, stores, faketoryCalls, observed,
                    ops >>
    /\ UNCHANGED pluginVars

\* faketory c exists and the behaviour has operations left
Usable(c) ==
    /\ ops < MaxOps
    /\ \E i \in 1..Len(createdFaketories) : createdFaketories[i] = c

GenerateOne(c, partial) ==
    Usable(c) /\ Settle(c, "generateOne", partial, generateOne(c, partial), 0)

GenerateMany(c, args) ==
    Usable(c) /\ Settle(c, "generateMany", args,
                         generateMany(c, args.input, args.partials), 0)

CreateOne(c, partial) ==
    Usable(c) /\ Settle(c, "createOne", partial, createOne(c, partial), 1)

CreateMany(c, args) ==
    Usable(c) /\ Settle(c, "createMany", args,
                         createMany(c, args.input, args.partials), 1)

SeedOne(c, partial) ==
    Usable(c) /\ Settle(c, "seedOne", partial, seedOne(c, partial), 0)

SeedMany(c, args) ==
    Usable(c) /\ Settle(c, "seedMany", args, seedMany(c, args.input, args.partials), 0)

Reset(c) ==
    Usable(c) /\ Settle(c, "reset", Undefined,
                         Outcome("void", Undefined, << >>, << >>, reset(c)), 0)

\* resetAllFaketories(): reset() of every faketory created so far
ResetAllFaketories ==
    /\ ops < MaxOps
    /\ stores' = [c \in DOMAIN stores |->
                     IF \E i \in 1..Len(createdFaketories) : createdFaketories[i] = c
                     THEN reset(c) ELSE stores[c]]
    /\ result' = [kind |-> "void", value |-> Undefined]
    /\ faketoryCalls' = << >>
    /\ observed' = << >>
    /\ warnings' = 0
    /\ lastOp' = Op("resetAllFaketories", [faketory |-> "all", arg |-> Undefined])
    /\ ops' = ops + 1
    /\ UNCHANGED << fakepointsToRun, invoked, registryLog, createdFaketories >>
    /\ UNCHANGED pluginVars

FaketoryNext ==
    \/ \E c \in Collections : CreateFaketory(c)
    \/ \E c \in Collections : \E partial \in OneArgs(c) : GenerateOne(c, partial)
    \/ \E c \in Collections : \E args \in ManyArgs(c) : GenerateMany(c, args)
    \/ \E c \in Collections : \E partial \in OneArgs(c) : CreateOne(c, partial)
    \/ \E c \in Collections : \E args \in ManyArgs(c) : CreateMany(c, args)
    \/ \E c \in Collections : \E partial \in OneArgs(c) : SeedOne(c, partial)
    \/ \E c \in Collections : \E args \in ManyArgs(c) : SeedMany(c, args)
    \/ \E c \in Collections : Reset(c)
    \/ ResetAllFaketories

FaketorySpec == LibInit /\ [][FaketoryNext]_vars

----------------------------------------------------------------------------
(* Vocabulary of the properties *)

\* the names of a path string, split at either separator (empty names dropped)
RECURSIVE splitString(_)
splitString(s) ==
    IF s = << >> THEN << >>
    ELSE IF \E i \in 1..Len(s) : s[i] \in {"/", "\\"}
    THEN LET i == CHOOSE k \in 1..Len(s) :
                      s[k] \in {"/", "\\"} /\ \A j \in 1..(k - 1) : s[j] \notin {"/", "\\"}
             rest == splitString(SubSeq(s, i + 1, Len(s)))
         IN  IF i = 1 THEN rest ELSE <<SubSeq(s, 1, i - 1)>> \o rest
    ELSE <<s>>

\* the last operation ran findFakepointFiles on the tree as it is now
Scanned ==
    \/ lastOp.op = "load" /\ lastOp.arg = <<"\\0", "collected-fakepoints">>
    \/ lastOp.op \in {"configureServer", "restarted"} /\ options.watch

\* the last operation was a load of the virtual module
LoadedVirtual == lastOp.op = "load" /\ lastOp.arg = <<"\\0", "collected-fakepoints">>

\* the tree paths named by the last scan result
DiscoveredPaths == { splitString(discovered.value[i]) : i \in 1..Len(discovered.value) }

\* the import statements of the returned module source, in order
ImportLines == SelectSeq(result.lines, LAMBDA l : l.kind = "import")

\* the tree paths the returned module source imports
ImportedPaths == { splitString(ImportLines[i].text) : i \in 1..Len(ImportLines) }

\* the tracked absolute paths, as tree paths below the workspace root
TrackedPaths ==
    { Tail(splitString(absoluteFakepointPaths[i])) : i \in 1..Len(absoluteFakepointPaths) }

FileName(e) == e.path[Len(e.path)]

\* entry e lies beneath a directory whose base name is in names
BeneathNamed(e, names) == \E i \in 1..(Len(e.path) - 1) : e.path[i] \in names

\* entry e lies in or beneath a directory that cannot be read
BeneathUnreadable(e) == \E i \in 0..(Len(e.path) - 1) : SubSeq(e.path, 1, i) \in unreadableDirs

\* the suffix the caller configured: filePattern, or '.fakepoints.ts' without one
ConfiguredSuffix ==
    IF options.filePattern = Null THEN <<".fakepoints", ".ts">> ELSE options.filePattern.value

\* the ignore set of the specification: the four defaults and the caller's names
EffectiveIgnoreSet ==
    { <<"node_modules">>, <<"dist">>, <<"tmp">>, <<".git">> }
    \cup (IF options.ignoreDirs = Null THEN {}
          ELSE { options.ignoreDirs.value[i] : i \in 1..Len(options.ignoreDirs.value) })

\* the regular files ending with suffix that lie beneath no ignored directory
Qualifying(suffix) ==
    { e \in fs : /\ e.kind = "file"
                 /\ endsWith(FileName(e), suffix)
                 /\ ~BeneathNamed(e, EffectiveIgnoreSet) }

----------------------------------------------------------------------------
(* C1 *)

\* C1 (as claimed): on a tree whose directories can all be read, a scan returns exactly
\* the regular files whose name ends with the configured suffix and that lie beneath
\* no directory named in the ignore set.
C1_ScanReturnsConfiguredSuffix ==
    (Scanned /\ unreadableDirs = {}) =>
        DiscoveredPaths = { e.path : e \in Qualifying(ConfiguredSuffix) }

----------------------------------------------------------------------------
(* C6 *)

\* C6 (as claimed): with a custom filePattern configured, the files discovered and
\* imported are exactly the qualifying files ending with that suffix, and none ends
\* with '.fakepoints.ts'.
C6_CustomPatternDiscovered ==
    (LoadedVirtual /\ options.filePattern # Null /\ unreadableDirs = {}) =>
        /\ ImportedPaths = { e.path : e \in Qualifying(options.filePattern.value) }
        /\ \A p \in ImportedPaths : ~endsWith(p[Len(p)], <<".fakepoints", ".ts">>)

----------------------------------------------------------------------------
(* C7 *)

\* C7 (as claimed): after a scan, every file beneath a directory named in the default
\* set or in ignoreDirs is absent from the scan result and the import list, and every
\* other regular file with the suffix is in them.
C7_IgnoredExcludedOthersIncluded ==
    Scanned =>
        \A e \in fs :
            IF BeneathNamed(e, EffectiveIgnoreSet)
            THEN e.path \notin DiscoveredPaths
            ELSE (e.kind = "file" /\ endsWith(FileName(e), <<".fakepoints", ".ts">>))
                     => e.path \in DiscoveredPaths

\* C7 (amended): after a scan, every file beneath a directory named in the default set
\* {node_modules, dist, tmp, .git} or in ignoreDirs is absent from the scan result and
\* from the import list, and every other regular file with the suffix that lies in no
\* unreadable directory is in both.
C7_IgnoredExcludedReadableIncluded ==
    Scanned =>
        \A e \in fs :
            IF BeneathNamed(e, EffectiveIgnoreSet)
            THEN /\ e.path \notin DiscoveredPaths
                 /\ LoadedVirtual => e.path \notin ImportedPaths
            ELSE (/\ e.kind = "file"
                  /\ endsWith(FileName(e), <<".fakepoints", ".ts">>)
                  /\ ~BeneathUnreadable(e))
                     => /\ e.path \in DiscoveredPaths
                        /\ LoadedVirtual => e.path \in ImportedPaths

\* a load under ignoreDirs ['utils', 'tests'] that left out src/utils/helper.fakepoints.ts
\* and node_modules/pkg/ignored.fakepoints.ts and imported src/models/user.fakepoints.ts
C7_Witness ==
    /\ LoadedVirtual
    /\ options.ignoreDirs # Null
    /\ {HelperFakepoints, IgnoredPkg, UserFakepoints} \subseteq fs
    /\ UserFakepoints.path \in ImportedPaths
    /\ HelperFakepoints.path \notin ImportedPaths

----------------------------------------------------------------------------
(* C2 *)

\* C2: with watch enabled, the delivery of an add-event for a path ending with the
\* suffix issues exactly one restart, tagged 'file added', the delivery of an
\* unlink-event for such a path exactly one, tagged 'file deleted', and the delivery of
\* any other event none.
C2_OneRestartPerMatchingEvent ==
    [][ (options.watch /\ events # << >> /\ events' = Tail(events)) =>
            LET ev == Head(events)
            IN  IF endsWith(ev.file, <<".fakepoints", ".ts">>) /\ ev.type \in {"add", "unlink"}
                THEN /\ restartLog' = Append(restartLog,
                                             IF ev.type = "add" THEN "file added"
                                             ELSE "file deleted")
                     /\ restartsInFlight' = restartsInFlight + 1
                ELSE /\ restartLog' = restartLog
                     /\ restartsInFlight' = restartsInFlight ]_vars

\* new.fakepoints.ts was added and deleted again, and both events were delivered
C2_Witness ==
    /\ options.watch
    /\ lastOp.op = "deliver"
    /\ lastOp.arg.type = "unlink"
    /\ restartLog = <<"file added", "file deleted">>

----------------------------------------------------------------------------
(* C3 *)

\* C3: with watch disabled no listener is attached, no path is registered with the
\* host watcher and no restart is ever issued, whatever events the watcher delivers.
C3_WatchDisabledNoRestart ==
    ~options.watch =>
        /\ listeners = << >>
        /\ watcherPaths = {}
        /\ restartLog = << >>
        /\ restartsInFlight = 0

\* with watch disabled, the event of a deleted fakepoints file has been delivered
C3_Witness ==
    /\ ~options.watch
    /\ lastOp.op = "deliver"
    /\ lastOp.arg.type = "unlink"
    /\ endsWith(lastOp.arg.file, <<".fakepoints", ".ts">>)

----------------------------------------------------------------------------
(* C4 *)

\* C4: the source a load of the virtual module returns imports exactly the files that a
\* scan of the tree as it is at that load selects (regular, ending with the suffix,
\* beneath no ignored and no unreadable directory), each once, whatever was loaded or
\* scanned before.
C4_LoadImportsCurrentTree ==
    LoadedVirtual =>
        /\ ImportedPaths =
               { e.path : e \in { q \in Qualifying(<<".fakepoints", ".ts">>) :
                                      ~BeneathUnreadable(q) } }
        /\ Len(ImportLines) = Cardinality(ImportedPaths)

\* a load after new.fakepoints.ts was added and user.fakepoints.ts deleted, and after
\* an earlier scan
C4_Witness ==
    /\ LoadedVirtual
    /\ changes = 2
    /\ NewFakepoints \in fs
    /\ UserFakepoints \notin fs
    /\ NewFakepoints.path \in ImportedPaths
    /\ UserFakepoints.path \notin ImportedPaths

----------------------------------------------------------------------------
(* C5 *)

----------------------------------------------------------------------------
(* C8 *)

\* '/' followed by the names of a tree path joined with '/'
RECURSIVE slashJoined(_)
slashJoined(p) == IF p = << >> THEN << >> ELSE <<"/">> \o Head(p) \o slashJoined(Tail(p))

\* C8 (as claimed): the source has one import per scanned file and no other, in the
\* order of the scanned list, each specifier being '/' and the file's root-relative
\* path with forward slashes.
C8_ImportsInOrderForwardSlash ==
    LoadedVirtual =>
        /\ Len(ImportLines) = Len(discovered.value)
        /\ \A i \in 1..Len(ImportLines) :
               ImportLines[i].text = slashJoined(splitString(discovered.value[i]))

----------------------------------------------------------------------------
(* C9 *)

\* C9: when the tree holds no file a scan selects, load still returns a source: its
\* first line is the header comment, it has no import statement and nothing but
\* comment and empty lines (and the count statement of debug mode), and one warning
\* is written to the console instead.
C9_EmptyScanHeaderOnly ==
    (/\ LoadedVirtual
     /\ \A e \in Qualifying(<<".fakepoints", ".ts">>) : BeneathUnreadable(e))
        => /\ result.kind = "source"
           /\ Len(result.lines) > 0
           /\ result.lines[1].kind = "comment"
           /\ ImportLines = << >>
           /\ \A i \in 1..Len(result.lines) :
                  \/ result.lines[i].kind \in {"comment", "blank"}
                  \/ options.debug /\ result.lines[i].kind = "log"
           /\ warnings = 1

\* a load of a tree whose only fakepoints files lie in node_modules and in an
\* unreadable directory
C9_Witness ==
    /\ LoadedVirtual
    /\ fs # {}
    /\ \A e \in Qualifying(<<".fakepoints", ".ts">>) : BeneathUnreadable(e)
    /\ warnings = 1
    /\ result.lines[1] = HeaderLine

----------------------------------------------------------------------------
(* C10 *)

\* C10: resolveId returns the resolved id '\0collected-fakepoints' for
\* 'collected-fakepoints' and null for any other id; load returns null for any id
\* other than the resolved id.
C10_OnlyVirtualIdHandled ==
    /\ lastOp.op = "resolveId" =>
           result = IF lastOp.arg = <<"collected-fakepoints">>
                    THEN [kind |-> "id", value |-> <<"\\0", "collected-fakepoints">>]
                    ELSE [kind |-> "null"]
    /\ (lastOp.op = "load" /\ lastOp.arg # <<"\\0", "collected-fakepoints">>)
           => result = [kind |-> "null"]

\* resolveId was asked for the already resolved id and did not handle it
C10_Witness ==
    /\ lastOp.op = "resolveId"
    /\ lastOp.arg = <<"\\0", "collected-fakepoints">>
    /\ result = [kind |-> "null"]

----------------------------------------------------------------------------
(* C11 *)

\* the glob '**/<name>/**' of an ignore name
GlobOf(name) == <<"**/">> \o name \o <<"/**">>

----------------------------------------------------------------------------
(* C12 *)

\* C12 (as claimed): when the host's restart rejects, the failure reaches the caller of
\* the add/unlink handler that triggered it: no rejection of a restart is left with
\* nobody to receive it.
C12_RestartFailureReachesCaller ==
    lastOp.op = "restartFailed" => unhandledRejections = 0

----------------------------------------------------------------------------
(* C13 *)

\* C13 (as claimed): the restart a handler triggered has completed when the handler
\* returns, so no event is handled while the restart of an earlier handler is still in
\* flight: once the listeners have returned from an event, no restart is in flight.
C13_RestartCompletesBeforeHandlerReturns ==
    lastOp.op = "deliver" => restartsInFlight = 0

----------------------------------------------------------------------------
(* C14 *)

\* C14: a scan of a tree with a directory that cannot be read completes and returns a
\* result, and the result holds every regular file with the suffix that lies beneath no
\* ignored directory and in no unreadable directory.
C14_UnreadableSkippedScanContinues ==
    (LoadedVirtual /\ unreadableDirs # {}) =>
        /\ result.kind = "source"
        /\ discovered.kind = "some"
        /\ \A e \in Qualifying(<<".fakepoints", ".ts">>) :
               ~BeneathUnreadable(e) =>
                   /\ e.path \in DiscoveredPaths
                   /\ e.path \in ImportedPaths

\* a load of a tree whose directory locked/ cannot be read: locked/secret.fakepoints.ts
\* is left out, src/models/user.fakepoints.ts of the sibling directory is imported
C14_Witness ==
    /\ LoadedVirtual
    /\ unreadableDirs = { << <<"locked">> >> }
    /\ {SecretFakepoints, UserFakepoints} \subseteq fs
    /\ UserFakepoints.path \in ImportedPaths
    /\ SecretFakepoints.path \notin ImportedPaths

----------------------------------------------------------------------------
(* C15 *)

\* the results that are not undefined, in order, each as it was returned
RECURSIVE NonVoid(_)
NonVoid(returns) ==
    IF returns = << >> THEN << >>
    ELSE (IF Head(returns) = [kind |-> "undefined"] THEN << >> ELSE <<Head(returns)>>)
         \o NonVoid(Tail(returns))

----------------------------------------------------------------------------
(* C16 *)

\* the functions registered after the last clear of a log of registry calls
RECURSIVE SinceClear(_)
SinceClear(log) ==
    IF log = << >> THEN << >>
    ELSE LET last == log[Len(log)]
             before == SubSeq(log, 1, Len(log) - 1)
         IN  IF last.op = "clear" THEN << >>
             ELSE IF last.op = "register" THEN Append(SinceClear(before), last.arg)
             ELSE SinceClear(before)

\* C16: right after clearAllFakepoints the registry is empty; the registry always holds
\* exactly the functions registered since the last clear, so a run invokes none of the
\* functions registered before it, and a run right after a clear returns an empty list.
C16_ClearEmptiesRegistry ==
    /\ lastOp.op = "clearAllFakepoints" => fakepointsToRun = << >>
    /\ fakepointsToRun = SinceClear(registryLog)
    /\ lastOp.op = "runAllFakepoints" =>
           /\ \A i \in 1..Len(invoked) :
                  i <= Len(SinceClear(registryLog)) /\ invoked[i] = SinceClear(registryLog)[i]
           /\ SinceClear(registryLog) = << >> =>
                  result = [kind |-> "results", values |-> << >>]

\* a function was registered, the registry cleared, another function registered, and
\* the run called only the second
C16_Witness ==
    /\ lastOp.op = "runAllFakepoints"
    /\ Len(registryLog) = 4
    /\ registryLog[1].op = "register"
    /\ registryLog[2].op = "clear"
    /\ registryLog[3].op = "register"
    /\ registryLog[1].arg # registryLog[3].arg
    /\ invoked = << registryLog[3].arg >>

----------------------------------------------------------------------------
(* Vocabulary of the faketory properties *)

\* the last operation was one of the named operations of a faketory
LastOpIn(names) == lastOp.op \in names

\* the collection of the faketory the last operation was called on
LastStore == stores[lastOp.arg.faketory]

\* the entities the last operation returned, as a list
Returned ==
    IF result.kind = "entity" THEN <<result.value>>
    ELSE IF result.kind = "entities" THEN result.value
    ELSE << >>

\* the defaults the entity faketory of the tests returns for an index
DefaultsOf(c, index) ==
    IF c = "user"
    THEN [id |-> [kind |-> "number", value |-> index + 1],
          email |-> [kind |-> "string", value |-> "faker.email"],
          name |-> [kind |-> "string", value |-> "faker.name"]]
    ELSE [id |-> [kind |-> "number", value |-> 1],
          title |-> [kind |-> "string", value |-> "Test Post"]]

\* entity is the shallow merge of partial over defaults
IsMergeOf(entity, defaults, partial) ==
    IF partial = [kind |-> "undefined"] THEN entity = defaults
    ELSE /\ DOMAIN entity = (DOMAIN defaults) \cup (DOMAIN partial)
         /\ \A k \in DOMAIN partial : entity[k] = partial[k]
         /\ \A k \in (DOMAIN defaults) \ (DOMAIN partial) : entity[k] = defaults[k]

----------------------------------------------------------------------------
(* C17 *)

\* C17: a step that is a generateOne, generateMany, createOne or createMany call leaves
\* every collection holding exactly the records it held before.
C17_GenerateLeavesStore ==
    [][ (/\ ops' = ops + 1
         /\ lastOp'.op \in {"generateOne", "generateMany", "createOne", "createMany"})
            => stores' = stores ]_vars

\* createMany was called with a count on a faketory whose collection holds seeded
\* entities, and returned three entities
C17_Witness ==
    /\ LastOpIn({"createMany"})
    /\ Len(Returned) = 3
    /\ LastStore # << >>

----------------------------------------------------------------------------
(* C18 *)

\* the number of entities a seed call is to return: one for seedOne, the count for
\* seedMany with a count, the number of partials for seedMany with partials only
SeedSize(op) ==
    IF op.op = "seedOne" THEN 1
    ELSE IF op.arg.arg.input.kind = "number" THEN op.arg.arg.input.value
    ELSE Len(op.arg.arg.input.items)

\* C18: a seed call that succeeds returns one entity (seedOne), n entities (seedMany
\* with count n) or as many as there are partials (seedMany with partials only), and
\* appends exactly the returned entities to its collection, so that the size of the
\* collection grows by the number returned and seeds accumulate.
C18_SeedsStoreWhatTheyReturn ==
    [][ (/\ ops' = ops + 1
         /\ lastOp'.op \in {"seedOne", "seedMany"}
         /\ result'.kind # "rejected")
            => LET c == lastOp'.arg.faketory
                   returned == IF result'.kind = "entity" THEN <<result'.value>>
                               ELSE result'.value
               IN  /\ Len(returned) = SeedSize(lastOp')
                   /\ stores'[c] = stores[c] \o returned
                   /\ Len(stores'[c]) = Len(stores[c]) + Len(returned) ]_vars

\* seedOne and then seedMany with three partials: the collection holds 1 + 3 entities
C18_Witness ==
    /\ LastOpIn({"seedMany"})
    /\ lastOp.arg.arg.input.kind = "array"
    /\ Len(Returned) = 3
    /\ Len(LastStore) = 4

----------------------------------------------------------------------------
(* C19 *)

\* C19: every entity a generate, create or seed call returns is the shallow merge of
\* the partial the entity faketory was called with over the defaults it returned: the
\* partial's value for each key of the partial, the default's value for every other
\* key, and the defaults themselves without a partial; a seeded entity is stored so.
C19_EntityIsPartialOverDefaults ==
    (/\ LastOpIn({"generateOne", "generateMany", "createOne", "createMany",
                  "seedOne", "seedMany"})
     /\ result.kind # "rejected") =>
        /\ Len(Returned) = Len(faketoryCalls)
        /\ \A i \in 1..Len(Returned) :
               /\ IsMergeOf(Returned[i],
                            DefaultsOf(lastOp.arg.faketory, faketoryCalls[i].index),
                            faketoryCalls[i].partial)
               /\ LastOpIn({"seedOne", "seedMany"}) =>
                      LastStore[Len(LastStore) - Len(Returned) + i] = Returned[i]

\* seedOne with the partial { email: 'second@example.com', name: 'Second' }: the entity
\* has the partial's email and name and the default id
C19_Witness ==
    /\ LastOpIn({"seedOne"})
    /\ lastOp.arg.faketory = "user"
    /\ result.kind = "entity"
    /\ result.value.email = [kind |-> "string", value |-> "second@example.com"]
    /\ result.value.name = [kind |-> "string", value |-> "Second"]
    /\ result.value.id = [kind |-> "number", value |-> 1]

----------------------------------------------------------------------------
(* C20 *)

\* C20: generateMany(n, partials) and seedMany(n, partials), when they succeed, return
\* exactly n entities; entity i (from 0) is the merge of partials[i] over the defaults
\* when i is less than the number of partials and the defaults otherwise, so that the
\* partials at index n and beyond are not used.
C20_CountWithPartialsByIndex ==
    (/\ LastOpIn({"generateMany", "seedMany"})
     /\ lastOp.arg.arg.input.kind = "number"
     /\ lastOp.arg.arg.partials # [kind |-> "undefined"]
     /\ result.kind # "rejected") =>
        LET n == lastOp.arg.arg.input.value
            partials == lastOp.arg.arg.partials.items
        IN  /\ Len(Returned) = n
            /\ \A i \in 0..(n - 1) :
                   IsMergeOf(Returned[i + 1], DefaultsOf(lastOp.arg.faketory, i),
                             IF i < Len(partials) THEN partials[i + 1]
                             ELSE [kind |-> "undefined"])

\* seedMany(3, [{ email: 'first@example.com' }]): three entities, the first with the
\* partial's email, the others with the default one
C20_Witness ==
    /\ LastOpIn({"seedMany"})
    /\ lastOp.arg.faketory = "user"
    /\ lastOp.arg.arg.input = [kind |-> "number", value |-> 3]
    /\ lastOp.arg.arg.partials # [kind |-> "undefined"]
    /\ Len(Returned) = 3
    /\ Returned[1].email = [kind |-> "string", value |-> "first@example.com"]
    /\ Returned[2].email = [kind |-> "string", value |-> "faker.email"]
    /\ Len(LastStore) >= 3

----------------------------------------------------------------------------
(* C21 *)

\* faketory c has been created
Created(c) == \E i \in 1..Len(createdFaketories) : createdFaketories[i] = c

\* C21: a reset() step of one faketory leaves that faketory's collection empty and
\* every other collection as it was; a resetAllFaketories() step leaves the collection
\* of every faketory created so far empty and returns normally, also when no faketory
\* has been created.
C21_ResetOnlyOwnCollection ==
    [][ /\ (ops' = ops + 1 /\ lastOp'.op = "reset") =>
               /\ stores'[lastOp'.arg.faketory] = << >>
               /\ \A d \in DOMAIN stores :
                      d # lastOp'.arg.faketory => stores'[d] = stores[d]
               /\ result'.kind = "void"
        /\ (ops' = ops + 1 /\ lastOp'.op = "resetAllFaketories") =>
               /\ \A d \in DOMAIN stores : Created(d) => stores'[d] = << >>
               /\ result'.kind = "void" ]_vars

\* after seeding both collections, reset() of the user faketory: the user collection is
\* empty and the post collection still holds its entities
C21_Witness ==
    /\ LastOpIn({"reset"})
    /\ lastOp.arg.faketory = "user"
    /\ ops = 3
    /\ stores["user"] = << >>
    /\ Len(stores["post"]) = 2

----------------------------------------------------------------------------
(* C22 *)

\* the number of entities an operation is asked for
AskedFor(op) ==
    IF op.op \in {"generateOne", "seedOne"} THEN 1
    ELSE IF op.arg.arg.input.kind = "number" THEN op.arg.arg.input.value
    ELSE Len(op.arg.arg.input.items)

\* C22: every call of the entity faketory made by seedOne or seedMany has seedingMode
\* true and every call made by generateOne or generateMany has seedingMode false; the
\* calls of one operation have the indexes 0, 1, 2, ... in the order they are made, one
\* call with index 0 for a single-entity operation and n calls, indexes 0..n-1, for an
\* n-entity operation that succeeds.
C22_PropsModeAndIndex ==
    LastOpIn({"generateOne", "generateMany", "seedOne", "seedMany"}) =>
        /\ \A i \in 1..Len(faketoryCalls) :
               /\ faketoryCalls[i].seedingMode = LastOpIn({"seedOne", "seedMany"})
               /\ faketoryCalls[i].index = i - 1
        /\ Len(faketoryCalls) <= AskedFor(lastOp)
        /\ result.kind # "rejected" => Len(faketoryCalls) = AskedFor(lastOp)

\* seedMany(3): three calls in seeding mode with the indexes 0, 1, 2
C22_Witness ==
    /\ LastOpIn({"seedMany"})
    /\ lastOp.arg.arg.input = [kind |-> "number", value |-> 3]
    /\ Len(faketoryCalls) = 3
    /\ faketoryCalls[1].index = 0
    /\ faketoryCalls[3].index = 2
    /\ faketoryCalls[3].seedingMode

----------------------------------------------------------------------------
(* C23 *)

\* C23: a createOne or createMany step, for every argument shape, calls the entity
\* faketory with the props, returns the entities and leaves the collections in the
\* state that generateOne or generateMany with the same arguments does, and writes one
\* deprecation warning; generateOne and generateMany write none.
C23_CreateIsGenerateWithWarning ==
    [][ /\ (ops' = ops + 1 /\ lastOp'.op = "createOne") =>
               LET g == generateOne(lastOp'.arg.faketory, lastOp'.arg.arg)
               IN  /\ result' = [kind |-> g.kind, value |-> g.value]
                   /\ faketoryCalls' = g.calls
                   /\ stores' = [stores EXCEPT ![lastOp'.arg.faketory] = g.store]
                   /\ warnings' = 1
        /\ (ops' = ops + 1 /\ lastOp'.op = "createMany") =>
               LET g == generateMany(lastOp'.arg.faketory, lastOp'.arg.arg.input,
                                     lastOp'.arg.arg.partials)
               IN  /\ result' = [kind |-> g.kind, value |-> g.value]
                   /\ faketoryCalls' = g.calls
                   /\ stores' = [stores EXCEPT ![lastOp'.arg.faketory] = g.store]
                   /\ warnings' = 1
        /\ (ops' = ops + 1 /\ lastOp'.op \in {"generateOne", "generateMany"}) =>
               warnings' = 0 ]_vars

\* createMany(3, [{ email: 'first@example.com' }]) on a seeded collection: three
\* entities, the first with the partial's email, and one warning
C23_Witness ==
    /\ LastOpIn({"createMany"})
    /\ lastOp.arg.faketory = "user"
    /\ lastOp.arg.arg.input = [kind |-> "number", value |-> 3]
    /\ lastOp.arg.arg.partials # [kind |-> "undefined"]
    /\ Len(Returned) = 3
    /\ Returned[1].email = [kind |-> "string", value |-> "first@example.com"]
    /\ warnings = 1
    /\ LastStore # << >>

----------------------------------------------------------------------------
(* C24 *)

\* the number of occurrences of x in the list s
Count(s, x) == Cardinality({ i \in 1..Len(s) : s[i] = x })

\* the event the listeners have just returned from
Delivered(type) ==
    /\ options.watch
    /\ lastOp.op = "deliver"
    /\ lastOp.arg.type = type
    /\ endsWith(lastOp.arg.file, <<".fakepoints", ".ts">>)

\* C24 (as claimed): after an add-event for a matching path the path is watched, and
\* after an unlink-event for a matching path the path is unwatched: it no longer occurs
\* in the tracking list, whatever events came before.
C24_UnlinkedPathUnwatched ==
    /\ Delivered("add") => Count(absoluteFakepointPaths, lastOp.arg.file) > 0
    /\ Delivered("unlink") => Count(absoluteFakepointPaths, lastOp.arg.file) = 0

\* C24 (amended): a path is watched when it occurs in the tracking list and unwatched
\* otherwise; every file found by the scan of a setup is watched after the setup; a
\* matching add-event adds one occurrence of its path, so that the path is watched; a
\* matching unlink-event takes one occurrence away, so that the path is unwatched
\* after it if it occurred at most once before.
C24_UnlinkRemovesOneOccurrence ==
    [][ (options.watch /\ events # << >> /\ events' = Tail(events)
         /\ endsWith(Head(events).file, <<".fakepoints", ".ts">>)) =>
            LET f == Head(events).file
                before == Count(absoluteFakepointPaths, f)
                after == Count(absoluteFakepointPaths', f)
            IN  /\ Head(events).type = "add" => after = before + 1
                /\ Head(events).type = "unlink" =>
                       /\ after = IF before > 0 THEN before - 1 ELSE 0
                       /\ before <= 1 => after = 0 ]_vars

\* the unlink-event of src/models/user.fakepoints.ts, found by the initial scan, was
\* delivered and the path is no longer tracked
C24_Witness ==
    /\ Delivered("unlink")
    /\ lastOp.arg.file = absoluteString(UserFakepoints)
    /\ restartLog = <<"file deleted">>
    /\ Count(absoluteFakepointPaths, lastOp.arg.file) = 0
    /\ Len(absoluteFakepointPaths) = 1

----------------------------------------------------------------------------
(* C25 *)

\* a step in which the watcher delivers its oldest event
Delivers == events # << >> /\ events' = Tail(events)

\* C25: in debug mode a delivered event changes the tracking list, the watcher
\* registrations and the restarts exactly as the add and unlink listeners alone change
\* them, so the 'all' listener changes nothing and requests no restart; an event of
\* type change, or for a path without the suffix, changes none of them.
C25_AllListenerOnlyLogs ==
    [][ (options.watch /\ options.debug /\ Delivers) =>
            LET ev == Head(events)
                c == emit(Closure(absoluteFakepointPaths, watcherPaths, restartLog,
                                  restartsInFlight),
                          <<"add", "unlink">>, ev)
            IN  /\ absoluteFakepointPaths' = c.tracked
                /\ watcherPaths' = c.watched
                /\ restartLog' = c.log
                /\ restartsInFlight' = c.inflight
                /\ (ev.type = "change" \/ ~endsWith(ev.file, <<".fakepoints", ".ts">>)) =>
                       /\ absoluteFakepointPaths' = absoluteFakepointPaths
                       /\ restartLog' = restartLog
                       /\ restartsInFlight' = restartsInFlight ]_vars

\* in debug mode the change event of src/models/user.fakepoints.ts was delivered to the
\* 'all' listener, and no restart was requested
C25_Witness ==
    /\ options.watch
    /\ options.debug
    /\ listeners = <<"all", "add", "unlink">>
    /\ lastOp.op = "deliver"
    /\ lastOp.arg.type = "change"
    /\ lastOp.arg.file = absoluteString(UserFakepoints)
    /\ restartLog = << >>

----------------------------------------------------------------------------
(* C26 *)

\* C26 (as claimed): a plugin given an option of the wrong shape reports an error when
\* it is constructed or configured, so that it never scans: no hook of it returns a
\* module source and no scan result exists.
C26_MisshapenOptionRejected ==
    options.misshapen # [kind |-> "null"] =>
        /\ discovered = [kind |-> "null"]
        /\ result.kind # "source"

----------------------------------------------------------------------------
(* C27 *)

\* no element occurs twice in the list s
NoDuplicates(s) == \A i, j \in 1..Len(s) : s[i] = s[j] => i = j

----------------------------------------------------------------------------
(* C28 *)

\* C28 (as claimed): the delivery of an add-event for a path that does not end with the
\* configured suffix changes neither the tracking list nor the watcher registrations
\* nor the restarts; for a path that ends with it, the path is appended to the tracking
\* list and added to the watcher, and one restart tagged 'file added' is requested.
C28_AddEventConfiguredSuffix ==
    [][ (options.watch /\ Delivers /\ Head(events).type = "add") =>
            LET f == Head(events).file
            IN  IF endsWith(f, ConfiguredSuffix)
                THEN /\ absoluteFakepointPaths' = Append(absoluteFakepointPaths, f)
                     /\ watcherPaths' = watcherPaths \cup {f}
                     /\ restartLog' = Append(restartLog, "file added")
                ELSE /\ absoluteFakepointPaths' = absoluteFakepointPaths
                     /\ watcherPaths' = watcherPaths
                     /\ restartLog' = restartLog
                     /\ restartsInFlight' = restartsInFlight ]_vars

----------------------------------------------------------------------------
(* C29 *)

\* the list s without the first occurrence of x
RECURSIVE WithoutFirst(_, _)
WithoutFirst(s, x) ==
    IF s = << >> THEN << >>
    ELSE IF Head(s) = x THEN Tail(s)
    ELSE <<Head(s)>> \o WithoutFirst(Tail(s), x)

\* C29: the delivery of an unlink-event for a path with the suffix removes the first
\* occurrence of the path from the tracking list and keeps every other element in its
\* order, leaves the list as it is when the path is not in it, and requests one restart
\* tagged 'file deleted' in both cases; for a path without the suffix neither the list
\* nor the restarts change.
C29_UnlinkRemovesFirstOccurrence ==
    [][ (options.watch /\ Delivers /\ Head(events).type = "unlink") =>
            LET f == Head(events).file
            IN  IF endsWith(f, <<".fakepoints", ".ts">>)
                THEN /\ absoluteFakepointPaths' = WithoutFirst(absoluteFakepointPaths, f)
                     /\ restartLog' = Append(restartLog, "file deleted")
                     /\ restartsInFlight' = restartsInFlight + 1
                ELSE /\ absoluteFakepointPaths' = absoluteFakepointPaths
                     /\ restartLog' = restartLog
                     /\ restartsInFlight' = restartsInFlight ]_vars

\* an unlink-event was delivered for a path that was tracked twice: one occurrence is
\* left, and the restart was requested
C29_Witness ==
    /\ Delivered("unlink")
    /\ Count(absoluteFakepointPaths, lastOp.arg.file) = 1
    /\ restartLog[Len(restartLog)] = "file deleted"

----------------------------------------------------------------------------
(* C30 *)

\* C30: the restart log grows only by the delivery of an add- or unlink-event for a
\* path with the suffix, and each such delivery appends exactly one request with its
\* tag and puts one more restart in flight, also while earlier restarts are in flight:
\* k such events give k requests, in the order of the events.
C30_RestartsNotCoalesced ==
    [][ /\ restartLog' # restartLog =>
               /\ Delivers
               /\ Head(events).type \in {"add", "unlink"}
               /\ endsWith(Head(events).file, <<".fakepoints", ".ts">>)
        /\ (/\ options.watch
            /\ Delivers
            /\ Head(events).type \in {"add", "unlink"}
            /\ endsWith(Head(events).file, <<".fakepoints", ".ts">>)) =>
               /\ Len(restartLog') = Len(restartLog) + 1
               /\ SubSeq(restartLog', 1, Len(restartLog)) = restartLog
               /\ restartsInFlight' = restartsInFlight + 1 ]_vars

\* three events for fakepoints files were delivered and three restarts requested, none
\* of which has completed
C30_Witness ==
    /\ options.watch
    /\ lastOp.op = "deliver"
    /\ Len(restartLog) = 3
    /\ restartsInFlight = 3
    /\ unhandledRejections = 0

----------------------------------------------------------------------------
(* C31 *)

\* C31: with watch enabled, right after a watcher setup the tracking list is the scan
\* result in scan order, each path resolved against the workspace root, and the watcher
\* holds exactly these paths and the workspace root; and whenever a listener is
\* attached, the root and every tracked path are registered with the watcher.
C31_SetupRegistersScanAndRoot ==
    /\ (options.watch /\ lastOp.op \in {"configureServer", "restarted"}) =>
           /\ Len(absoluteFakepointPaths) = Len(discovered.value)
           /\ \A i \in 1..Len(absoluteFakepointPaths) :
                  absoluteFakepointPaths[i] = <<"/ws", platformSep>> \o discovered.value[i]
           /\ watcherPaths = Range(absoluteFakepointPaths) \cup { <<"/ws">> }
           /\ {"add", "unlink"} \subseteq Range(listeners)
    /\ listeners # << >> =>
           /\ <<"/ws">> \in watcherPaths
           /\ Range(absoluteFakepointPaths) \subseteq watcherPaths

\* the watcher was set up on the scenario tree: two files and the root are registered,
\* the two listeners are attached and no event has been handled
C31_Witness ==
    /\ options.watch
    /\ lastOp.op = "configureServer"
    /\ Len(absoluteFakepointPaths) = 2
    /\ Cardinality(watcherPaths) = 3
    /\ listeners = <<"add", "unlink">>
    /\ events = << >>
    /\ restartLog = << >>

----------------------------------------------------------------------------
(* C32 *)

\* the event at the head of the queue is an add or unlink of a path with the suffix
\* (only called when an event is pending)
HandledEvent ==
    /\ Head(events).type \in {"add", "unlink"}
    /\ endsWith(Head(events).file, <<".fakepoints", ".ts">>)

\* C32: config, resolveId, load, a failed restart and a change of the tree leave the
\* tracking list as it is, as does the delivery of an event that is no add or unlink of
\* a path with the suffix; the list only changes when such an event is delivered or a
\* server is set up; and the source a load returns imports the files of the tree as it
\* is, whatever the tracking list holds.
C32_OnlyHandlersChangeTracked ==
    [][ /\ lastOp'.op \in {"config", "resolveId", "load", "restartFailed",
                           "create", "delete", "change"}
               => absoluteFakepointPaths' = absoluteFakepointPaths
        /\ (Delivers /\ ~HandledEvent) => absoluteFakepointPaths' = absoluteFakepointPaths
        /\ absoluteFakepointPaths' # absoluteFakepointPaths =>
               \/ Delivers /\ HandledEvent
               \/ lastOp'.op \in {"configureServer", "restarted"}
        /\ LoadedVirtual' =>
               ImportedPaths' = { e.path : e \in Qualifying(<<".fakepoints", ".ts">>)' } ]_vars

\* the module was loaded on a running server whose tracking list is not empty and
\* differs from the files of the tree
C32_Witness ==
    /\ LoadedVirtual
    /\ options.watch
    /\ pc = "serving"
    /\ absoluteFakepointPaths # << >>
    /\ TrackedPaths # ImportedPaths
    /\ ImportedPaths # {}

----------------------------------------------------------------------------
(* C33 *)

\* C33 (as claimed): with watch enabled, the delivery of an add or unlink event for a
\* path with the suffix that lies beneath a directory named in the effective ignore
\* set neither changes the tracking list nor requests a restart.
C33_IgnoredDirEventNoEffect ==
    [][ (/\ options.watch
         /\ Delivers
         /\ HandledEvent
         /\ \E e \in Universe : /\ absoluteString(e) = Head(events).file
                                /\ BeneathNamed(e, EffectiveIgnoreSet))
            => /\ absoluteFakepointPaths' = absoluteFakepointPaths
               /\ restartLog' = restartLog ]_vars

----------------------------------------------------------------------------
(* C34 *)

\* C34: when the root directory cannot be read, a scan still completes, with an empty
\* list: load returns a source that is the header without any import and warns, and a
\* watcher setup goes through with an empty tracking list, the root registered and the
\* listeners attached.
C34_UnreadableRootEmptyScan ==
    (<< >> \in unreadableDirs /\ Scanned) =>
        /\ discovered = [kind |-> "some", value |-> << >>]
        /\ LoadedVirtual =>
               /\ result.kind = "source"
               /\ result.lines[1] = HeaderLine
               /\ ImportLines = << >>
               /\ warnings = 1
        /\ lastOp.op = "configureServer" =>
               /\ pc = "serving"
               /\ absoluteFakepointPaths = << >>
               /\ watcherPaths = { <<"/ws">> }
               /\ {"add", "unlink"} \subseteq Range(listeners)

\* the root of a tree that holds fakepoints files cannot be read: the watcher was set
\* up, and then the module was loaded
C34_Witness ==
    /\ << >> \in unreadableDirs
    /\ UserFakepoints \in fs
    /\ pc = "serving"
    /\ LoadedVirtual
    /\ result.kind = "source"
    /\ absoluteFakepointPaths = << >>

----------------------------------------------------------------------------
(* C35 *)

\* C35: a call of runAllFakepoints leaves the registered list as it is, and a run that
\* returns has called every registered function; a call that directly follows another
\* calls the same functions in the same order and gives an equal result; the list only
\* changes by registerFakepoints, which appends its function at the end, and by
\* clearAllFakepoints, which empties it.
C35_RunLeavesRegistry ==
    [][ /\ (lastOp'.op = "runAllFakepoints" /\ registryLog' # registryLog) =>
               /\ fakepointsToRun' = fakepointsToRun
               /\ result'.kind = "results" => invoked' = fakepointsToRun
        /\ (/\ lastOp.op = "runAllFakepoints"
            /\ lastOp'.op = "runAllFakepoints"
            /\ registryLog' # registryLog) =>
               /\ invoked' = invoked
               /\ result' = result
        /\ fakepointsToRun' # fakepointsToRun =>
               \/ /\ lastOp'.op = "registerFakepoints"
                  /\ fakepointsToRun' = Append(fakepointsToRun, lastOp'.arg)
               \/ /\ lastOp'.op = "clearAllFakepoints"
                  /\ fakepointsToRun' = << >> ]_vars

\* two functions were registered and runAllFakepoints was called twice in a row: the
\* second run called both again and the list still holds both
C35_Witness ==
    /\ Len(registryLog) = 4
    /\ registryLog[3].op = "run"
    /\ registryLog[4].op = "run"
    /\ Len(fakepointsToRun) = 2
    /\ invoked = fakepointsToRun
    /\ result.kind = "results"
    /\ Len(result.values) = 2

----------------------------------------------------------------------------
(* C36 *)

\* C36: in a seedMany call the entity faketory is called for the indexes 0, 1, 2, ...
\* in this order, and the call for index i finds in the collection the records that
\* were there before the call and exactly the i entities of the earlier indexes; when
\* the call succeeds, the collection holds the returned entities after the records it
\* held before, in the order of the returned list.
C36_SeedManySequential ==
    [][ (ops' = ops + 1 /\ lastOp'.op = "seedMany") =>
            LET c == lastOp'.arg.faketory
            IN  /\ Len(observed') = Len(faketoryCalls')
                /\ \A i \in 1..Len(observed') :
                       /\ faketoryCalls'[i].index = i - 1
                       /\ observed'[i] = Len(stores[c]) + (i - 1)
                /\ result'.kind = "entities" =>
                       /\ Len(stores'[c]) = Len(stores[c]) + Len(result'.value)
                       /\ \A i \in 1..Len(result'.value) :
                              stores'[c][Len(stores[c]) + i] = result'.value[i] ]_vars

\* seedMany(3) on a collection that held two records: the three calls of the entity
\* faketory found two, three and four records
C36_Witness ==
    /\ LastOpIn({"seedMany"})
    /\ lastOp.arg.faketory = "user"
    /\ result.kind = "entities"
    /\ observed = <<2, 3, 4>>
    /\ Len(LastStore) = 5

----------------------------------------------------------------------------
(* C37 *)

\* C37: a seedMany call that fails made its last call of the entity faketory for an
\* index k below the number asked for, at which the entity faketory rejects or the
\* merged entity does not pass the collection's validation; the collection then holds
\* the records it held before, followed by the merged entities of the indexes 0..k-1 in
\* this order, and nothing else.
C37_SeedManyNoRollback ==
    [][ (ops' = ops + 1 /\ lastOp'.op = "seedMany" /\ result'.kind = "rejected") =>
            LET c == lastOp'.arg.faketory
                k == Len(faketoryCalls') - 1
                merged(i) ==
                    LET defaults == DefaultsOf(c, i)
                        partial == faketoryCalls'[i + 1].partial
                    IN  [key \in (DOMAIN defaults) \cup (DOMAIN partial) |->
                            IF key \in DOMAIN partial THEN partial[key] ELSE defaults[key]]
                passes(i) ==
                    /\ ~(c = "post" /\ i = 2)
                    /\ LET entity == IF faketoryCalls'[i + 1].partial = [kind |-> "undefined"]
                                     THEN DefaultsOf(c, i) ELSE merged(i)
                       IN  /\ DOMAIN entity = DOMAIN schema(c)
                           /\ \A key \in DOMAIN entity : entity[key].kind = schema(c)[key]
            IN  /\ k >= 0
                /\ k < AskedFor(lastOp')
                /\ ~passes(k)
                /\ \A i \in 0..(k - 1) : passes(i)
                /\ Len(stores'[c]) = Len(stores[c]) + k
                /\ SubSeq(stores'[c], 1, Len(stores[c])) = stores[c]
                /\ \A i \in 0..(k - 1) :
                       IsMergeOf(stores'[c][Len(stores[c]) + i + 1], DefaultsOf(c, i),
                                 faketoryCalls'[i + 1].partial) ]_vars

\* seedMany(3) on the empty collection of the posts: the entity faketory rejected for
\* the third entity, the call failed and the first two entities are stored
C37_Witness ==
    /\ LastOpIn({"seedMany"})
    /\ lastOp.arg.faketory = "post"
    /\ result.kind = "rejected"
    /\ Len(faketoryCalls) = 3
    /\ ops = 1
    /\ Len(stores["post"]) = 2

====
